---- MODULE Spec2Model ----
(***************************************************************************)
(* Activity roster: signup_participant and unregister_participant of       *)
(* src/src/activities.py, as a state machine over the roster dictionary.   *)
(* Each call is one atomic step (the module is single-threaded and         *)
(* synchronous); a call that raises leaves its exception in last.result.   *)
(***************************************************************************)
EXTENDS Integers, Sequences, FiniteSets

\* ------------------------------------------------------------------ bounds

\* Number of distinct student emails the callers use.
NumEmails == 3

\* max_participants of the two activities of the roster; small, so that the
\* lists outgrow them.
ChessCapacity == 1

BasketballCapacity == 2

\* ------------------------------------------------------------------ inputs

EmailPool ==
    << "alice@school.edu", "bob@school.edu", "charlie@school.edu",
       "dave@school.edu", "eve@school.edu" >>

Emails == { EmailPool[i] : i \in 1..NumEmails }

\* The keys of the roster handed to the functions (the tests' fixture).
ExistingActivities == { "Chess Club", "Basketball" }

\* The names callers pass: the keys and one name that is no key.
ActivityNames == ExistingActivities \cup { "Yoga Club" }

Description(name) ==
    IF name = "Chess Club" THEN "Learn chess strategies" ELSE "Play basketball"

Schedule(name) ==
    IF name = "Chess Club" THEN "Friday 3:30 PM" ELSE "Monday 4:00 PM"

MaxParticipants(name) ==
    IF name = "Chess Club" THEN ChessCapacity ELSE BasketballCapacity

\* ------------------------------------------------------- python list model

\* `x in lst`
Contains(lst, x) == \E i \in 1..Len(lst) : lst[i] = x

\* lst.index(x): the least position holding x (x is in lst)
IndexOf(lst, x) ==
    CHOOSE i \in 1..Len(lst) : lst[i] = x /\ \A j \in 1..(i - 1) : lst[j] # x

\* lst.remove(x): drops the first occurrence of x, the rest keeps its order
ListRemove(lst, x) ==
    LET i == IndexOf(lst, x)
    IN  SubSeq(lst, 1, i - 1) \o SubSeq(lst, i + 1, Len(lst))

\* lst.append(x)
ListAppend(lst, x) == lst \o << x >>

NoDuplicate(lst) == \A i, j \in 1..Len(lst) : lst[i] = lst[j] => i = j

\* The duplicate-free lists over a set of emails, of every length.
UniqueLists(S) ==
    UNION { { l \in [1..n -> S] : NoDuplicate(l) } : n \in 0..Cardinality(S) }

\* ------------------------------------------------------------- operations

Raise(exc, acts) == [result |-> exc, activities |-> acts]

Return(acts) == [result |-> "ok", activities |-> acts]

\* Mutants of signup_participant.
signup_no_duplicate_check(acts, name, email) ==
    IF name \notin DOMAIN acts
    THEN Raise("ActivityNotFound", acts)
    ELSE Return([acts EXCEPT ![name].participants = ListAppend(@, email)])

signup_insert_front(acts, name, email) ==
    IF name \notin DOMAIN acts
    THEN Raise("ActivityNotFound", acts)
    ELSE IF Contains(acts[name].participants, email)
    THEN Raise("ValueError", acts)
    ELSE Return([acts EXCEPT ![name].participants = << email >> \o @])

signup_duplicate_is_silent(acts, name, email) ==
    IF name \notin DOMAIN acts
    THEN Raise("ActivityNotFound", acts)
    ELSE IF Contains(acts[name].participants, email)
    THEN Return(acts)
    ELSE Return([acts EXCEPT ![name].participants = ListAppend(@, email)])

signup_creates_activity(acts, name, email) ==
    IF name \notin DOMAIN acts
    THEN Return([n \in DOMAIN acts \cup { name } |->
                    IF n = name
                    THEN [description |-> "", schedule |-> "",
                          max_participants |-> 0, participants |-> << email >>]
                    ELSE acts[n]])
    ELSE IF Contains(acts[name].participants, email)
    THEN Raise("ValueError", acts)
    ELSE Return([acts EXCEPT ![name].participants = ListAppend(@, email)])

signup_moves_student(acts, name, email) ==
    IF name \notin DOMAIN acts
    THEN Raise("ActivityNotFound", acts)
    ELSE IF Contains(acts[name].participants, email)
    THEN Raise("ValueError", acts)
    ELSE Return([n \in DOMAIN acts |->
                    IF n = name
                    THEN [acts[n] EXCEPT !.participants = ListAppend(@, email)]
                    ELSE IF Contains(acts[n].participants, email)
                    THEN [acts[n] EXCEPT !.participants = ListRemove(@, email)]
                    ELSE acts[n]])

signup_enforces_capacity(acts, name, email) ==
    IF name \notin DOMAIN acts
    THEN Raise("ActivityNotFound", acts)
    ELSE IF Contains(acts[name].participants, email)
    THEN Raise("ValueError", acts)
    ELSE IF Len(acts[name].participants) >= acts[name].max_participants
    THEN Raise("ValueError", acts)
    ELSE Return([acts EXCEPT ![name].participants = ListAppend(@, email)])

\* signup_participant(activities, activity_name, email)
signup_participant(acts, name, email) ==
    IF name \notin DOMAIN acts
    THEN Raise("ActivityNotFound", acts)
    ELSE IF Contains(acts[name].participants, email)
    THEN Raise("ValueError", acts)
    ELSE Return([acts EXCEPT ![name].participants = ListAppend(@, email)])

\* Mutants of unregister_participant.
unregister_swap_remove(acts, name, email) ==
    IF name \notin DOMAIN acts
    THEN Raise("ActivityNotFound", acts)
    ELSE IF ~Contains(acts[name].participants, email)
    THEN Raise("ParticipantNotFound", acts)
    ELSE LET lst == acts[name].participants
             i   == IndexOf(lst, email)
             swp == [lst EXCEPT ![i] = lst[Len(lst)]]
         IN  Return([acts EXCEPT ![name].participants =
                                    SubSeq(swp, 1, Len(lst) - 1)])

unregister_from_any_activity(acts, name, email) ==
    IF name \notin DOMAIN acts
    THEN Raise("ActivityNotFound", acts)
    ELSE IF \A n \in DOMAIN acts : ~Contains(acts[n].participants, email)
    THEN Raise("ParticipantNotFound", acts)
    ELSE Return([n \in DOMAIN acts |->
                    IF Contains(acts[n].participants, email)
                       /\ (n = name \/ ~Contains(acts[name].participants, email))
                    THEN [acts[n] EXCEPT !.participants = ListRemove(@, email)]
                    ELSE acts[n]])

unregister_everywhere(acts, name, email) ==
    IF name \notin DOMAIN acts
    THEN Raise("ActivityNotFound", acts)
    ELSE IF ~Contains(acts[name].participants, email)
    THEN Raise("ParticipantNotFound", acts)
    ELSE Return([n \in DOMAIN acts |->
                    IF Contains(acts[n].participants, email)
                    THEN [acts[n] EXCEPT !.participants = ListRemove(@, email)]
                    ELSE acts[n]])

unregister_absent_is_silent(acts, name, email) ==
    IF name \notin DOMAIN acts
    THEN Raise("ActivityNotFound", acts)
    ELSE IF ~Contains(acts[name].participants, email)
    THEN Return(acts)
    ELSE Return([acts EXCEPT ![name].participants = ListRemove(@, email)])

\* unregister_participant(activities, activity_name, email)
unregister_participant(acts, name, email) ==
    IF name \notin DOMAIN acts
    THEN Raise("ActivityNotFound", acts)
    ELSE IF ~Contains(acts[name].participants, email)
    THEN Raise("ParticipantNotFound", acts)
    ELSE Return([acts EXCEPT ![name].participants = ListRemove(@, email)])

\* ------------------------------------------------------------------ state

VARIABLES
    activities,     \* the roster: activity name -> activity record
    prev,           \* the roster as it was when the last call was made
    last,           \* the last call: op, activity_name, email, result
    before_signup,  \* << roster >> before a signup that succeeded and was
                    \* directly followed by unregister of the same pair
    watch,          \* << activity_name, email >> followed through a run
    lastOk,         \* the last call on the watched pair that succeeded
    watchLen        \* length of the watched list before the watched pair's
                    \* last successful unregister, while no call of another
                    \* email has changed that list since; -1 otherwise

vars == << activities, prev, last, before_signup, watch, lastOk, watchLen >>

\* An activity record as the callers build it.
Activity(name, participants) ==
    [ description      |-> Description(name),
      schedule         |-> Schedule(name),
      max_participants |-> MaxParticipants(name),
      participants     |-> participants ]

\* Every roster over the fixture's keys whose lists are duplicate-free.
Rosters ==
    { [ n \in ExistingActivities |-> Activity(n, lst[n]) ] :
        lst \in [ ExistingActivities -> UniqueLists(Emails) ] }

NoCall == [op |-> "none", name |-> "", email |-> "", result |-> "none"]

Init ==
    /\ activities \in Rosters
    /\ prev = activities
    /\ last = NoCall
    /\ before_signup = << >>
    /\ watch = << >>
    /\ lastOk = "none"
    /\ watchLen = -1

\* One call of signup_participant by the caller, its exception caught.
Signup ==
    \E name \in ActivityNames, email \in Emails :
        LET out == signup_participant(activities, name, email)
        IN  /\ activities' = out.activities
            /\ prev' = activities
            /\ last' = [op |-> "signup", name |-> name, email |-> email,
                        result |-> out.result]
            /\ before_signup' = << >>
            /\ UNCHANGED << watch, lastOk, watchLen >>

\* One call of unregister_participant by the caller, its exception caught.
Unregister ==
    \E name \in ActivityNames, email \in Emails :
        LET out == unregister_participant(activities, name, email)
        IN  /\ activities' = out.activities
            /\ prev' = activities
            /\ last' = [op |-> "unregister", name |-> name, email |-> email,
                        result |-> out.result]
            /\ before_signup' =
                  IF /\ last.op = "signup"
                     /\ last.result = "ok"
                     /\ last.name = name
                     /\ last.email = email
                  THEN << prev >>
                  ELSE << >>
            /\ UNCHANGED << watch, lastOk, watchLen >>

Next == Signup \/ Unregister

Spec == Init /\ [][Next]_vars

\* ------------------------------------------- one pair followed through a run

InitWatch ==
    /\ activities \in Rosters
    /\ prev = << >>
    /\ last = NoCall
    /\ before_signup = << >>
    /\ watch \in ExistingActivities \X Emails
    /\ lastOk = "none"
    /\ watchLen = -1

\* Whether a call is on the watched pair.
Watched(name, email) == << name, email >> = watch

WatchedList(acts) == acts[watch[1]].participants

WatchSignup ==
    \E name \in ActivityNames, email \in Emails :
        LET out == signup_participant(activities, name, email)
        IN  /\ activities' = out.activities
            /\ lastOk' = IF out.result = "ok" /\ Watched(name, email)
                         THEN "signup" ELSE lastOk
            /\ watchLen' = IF /\ out.result = "ok"
                              /\ name = watch[1]
                              /\ email # watch[2]
                           THEN -1 ELSE watchLen
            /\ UNCHANGED << prev, last, before_signup, watch >>

WatchUnregister ==
    \E name \in ActivityNames, email \in Emails :
        LET out == unregister_participant(activities, name, email)
        IN  /\ activities' = out.activities
            /\ lastOk' = IF out.result = "ok" /\ Watched(name, email)
                         THEN "unregister" ELSE lastOk
            /\ watchLen' = IF out.result = "ok" /\ Watched(name, email)
                           THEN Len(WatchedList(activities))
                           ELSE IF out.result = "ok" /\ name = watch[1]
                           THEN -1 ELSE watchLen
            /\ UNCHANGED << prev, last, before_signup, watch >>

NextWatch == WatchSignup \/ WatchUnregister

SpecWatch == InitWatch /\ [][NextWatch]_vars

\* ------------------------------------------------------------- properties

\* How many positions of a list hold x.
Count(lst, x) == Cardinality({ i \in 1..Len(lst) : lst[i] = x })

\* The lists of the last call's activity, before and after the call.
OldList == prev[last.name].participants

NewList == activities[last.name].participants

\* Some activity other than the last call's held the call's email before it.
InAnotherActivity ==
    \E n \in DOMAIN prev :
        n # last.name /\ Contains(prev[n].participants, last.email)

\* C1: after any sequence of signup and unregister calls on a roster that
\* started duplicate-free, no activity's participants list holds an
\* identifier more than once.
NoDuplicateParticipants ==
    \A n \in DOMAIN activities :
        \A e \in Emails : Count(activities[n].participants, e) <= 1

\* A signup has just filled a list with every email there is.
FullListReached ==
    /\ last.op = "signup"
    /\ last.result = "ok"
    /\ Len(NewList) = Cardinality(Emails)

\* C2: signup of an email that is absent from an existing activity succeeds,
\* and the activity's list is then the old list with the email appended:
\* once, at the end, the length one more, the earlier entries in place.
SignupAbsentAppends ==
    ( /\ last.op = "signup"
      /\ last.name \in DOMAIN prev
      /\ ~Contains(OldList, last.email) )
    => /\ last.result = "ok"
       /\ Len(NewList) = Len(OldList) + 1
       /\ NewList[Len(NewList)] = last.email
       /\ Count(NewList, last.email) = 1
       /\ \A i \in 1..Len(OldList) : NewList[i] = OldList[i]

\* A signup of an absent email to a list that already held two entries.
SignupToNonEmptyList ==
    /\ last.op = "signup"
    /\ last.name \in DOMAIN prev
    /\ ~Contains(OldList, last.email)
    /\ Len(OldList) >= 2
    /\ last.result = "ok"

\* C3: signup of an email the activity already holds fails with ValueError
\* (no other exception) and leaves the whole roster as it was.
SignupDuplicateRejected ==
    ( /\ last.op = "signup"
      /\ last.name \in DOMAIN prev
      /\ Contains(OldList, last.email) )
    => /\ last.result = "ValueError"
       /\ activities = prev

\* A signup of an email that was already on the list has been made.
DuplicateSignupMade ==
    /\ last.op = "signup"
    /\ last.name \in DOMAIN prev
    /\ Contains(OldList, last.email)
    /\ last.result # "none"

\* C4: with an activity name that is no key of the roster, signup and
\* unregister both fail with ActivityNotFound, whatever the email, and the
\* roster is left as it was: no activity added, removed or changed.
MissingActivityRejected ==
    ( /\ last.op \in { "signup", "unregister" }
      /\ last.name \notin DOMAIN prev )
    => /\ last.result = "ActivityNotFound"
       /\ activities = prev
       /\ DOMAIN activities = DOMAIN prev

\* A call named a missing activity, with an email another activity holds.
MissingActivityCalled ==
    /\ last.op \in { "signup", "unregister" }
    /\ last.name \notin DOMAIN prev
    /\ \E n \in DOMAIN prev : Contains(prev[n].participants, last.email)
    /\ last.result # "none"

\* C5: unregister of an email the activity holds succeeds; the email is then
\* gone, the list is one shorter, and the other entries keep their order.
UnregisterPresentRemoves ==
    ( /\ last.op = "unregister"
      /\ last.name \in DOMAIN prev
      /\ Contains(OldList, last.email) )
    => /\ last.result = "ok"
       /\ ~Contains(NewList, last.email)
       /\ Len(NewList) = Len(OldList) - 1
       /\ NewList = SelectSeq(OldList, LAMBDA x : x # last.email)

\* The first of three participants has been unregistered.
FirstOfThreeUnregistered ==
    /\ last.op = "unregister"
    /\ last.name \in DOMAIN prev
    /\ Len(OldList) = 3
    /\ OldList[1] = last.email
    /\ last.result = "ok"

\* C6: unregister of an email the activity does not hold fails with
\* ParticipantNotFound and leaves the whole roster as it was, also when
\* another activity holds that email.
UnregisterAbsentRejected ==
    ( /\ last.op = "unregister"
      /\ last.name \in DOMAIN prev
      /\ ~Contains(OldList, last.email) )
    => /\ last.result = "ParticipantNotFound"
       /\ activities = prev

\* An unregister named an activity without the email, held by another one.
AbsentUnregisterMade ==
    /\ last.op = "unregister"
    /\ last.name \in DOMAIN prev
    /\ ~Contains(OldList, last.email)
    /\ InAnotherActivity
    /\ last.result # "none"

\* C7: a successful signup directly followed by unregister of the same
\* email from the same activity succeeds and returns the whole roster to
\* what it was before the signup.
SignupUnregisterRoundTrip ==
    before_signup # << >>
    => /\ last.result = "ok"
       /\ activities = before_signup[1]

\* The round trip was made on a list with entries, the email being held by
\* another activity too.
RoundTripMade ==
    /\ before_signup # << >>
    /\ last.op = "unregister"
    /\ Len(before_signup[1][last.name].participants) >= 1
    /\ \E n \in DOMAIN before_signup[1] :
          n # last.name /\ Contains(before_signup[1][n].participants, last.email)

\* C8: a call changes nothing but the participants list of the activity it
\* names: the roster keeps its set of names, every other activity is as
\* before, and every activity keeps its description, schedule and
\* max_participants; an email held by one activity can be signed up to
\* another, which leaves the first one holding it.
OnlyNamedListChanges ==
    /\ DOMAIN activities = ExistingActivities
    /\ DOMAIN activities = DOMAIN prev
    /\ \A n \in DOMAIN prev :
          /\ n # last.name => activities[n] = prev[n]
          /\ activities[n].description = prev[n].description
          /\ activities[n].schedule = prev[n].schedule
          /\ activities[n].max_participants = prev[n].max_participants
    /\ ( /\ last.op = "signup"
         /\ last.name \in DOMAIN prev
         /\ ~Contains(OldList, last.email)
         /\ InAnotherActivity )
       => /\ last.result = "ok"
          /\ Contains(NewList, last.email)
          /\ \E n \in DOMAIN activities :
                n # last.name /\ Contains(activities[n].participants, last.email)

\* An email held by one activity has been signed up to a second one.
SignedUpToSecondActivity ==
    /\ last.op = "signup"
    /\ last.result = "ok"
    /\ InAnotherActivity
    /\ activities # prev

CapacityIgnored ==
    ( /\ last.op = "signup"
      /\ last.name \in DOMAIN prev
      /\ ~Contains(OldList, last.email)
      /\ Len(OldList) >= prev[last.name].max_participants )
    => /\ last.result = "ok"
       /\ Len(NewList) = Len(OldList) + 1
       /\ Len(NewList) > activities[last.name].max_participants

\* A signup was made to a list that was already at or over its capacity.
SignupOverCapacity ==
    /\ last.op = "signup"
    /\ last.name \in DOMAIN prev
    /\ ~Contains(OldList, last.email)
    /\ Len(OldList) >= prev[last.name].max_participants
    /\ last.result # "none"

====
